---- MODULE Spec2Model ----
(***************************************************************************)
(* Validate-repair pipeline, placement transforms and output sanitizer of  *)
(* blog_writing_worker_direction.py.                                       *)
(*                                                                         *)
(* Text handled character by character (sanitize_output, validate_summary, *)
(* inject_summary_at_top, insert_table_into_blog, validate_html_table) is  *)
(* a sequence of one-character strings.                                    *)
(***************************************************************************)
EXTENDS Integers, Sequences, FiniteSets, TLC

VARIABLES
    \* generate_blog_with_two_sources: one artifact's run
    pc,          \* position in the function
    sources,     \* the two bound source URLs (SourceDoc.url)
    calls,       \* the call_llm calls so far: the message sent, and what came back
    verdicts,    \* what each validate_all call so far raised (NoError: it returned)
    raised,      \* the exception that left the function, or NoError
    result,      \* the returned content, or NoText
    \* sanitize_output applied to a text and to its own result
    sIn, sMax, sOut, sOut2, sPhase,
    \* validate_summary / inject_summary_at_top
    mBlog, mSummary, mErr, mOut, mPhase,
    \* validate_html_table / insert_table_into_blog
    tBlog, tTable, tTarget, tErr, tOut, tPhase,
    \* add_top_summary / add_html_comparison_table: one call
    aKind,       \* which of the two functions runs: "summary" or "table"
    aBlog,       \* blog_md
    aTarget,     \* after_heading (<<>> for None)
    aPc,         \* position in the function
    aCand,       \* the local summary / table_html: the latest stripped output
    aCalls,      \* the call_llm calls so far
    aVerdicts,   \* what each validation so far raised (NoError: it returned)
    aPlaced,     \* the text handed to the placement transform, or NoText
    aRaised,     \* the exception that left the function, or NoError
    aResult      \* the returned blog, or NoText

blogVars == <<pc, sources, calls, verdicts, raised, result>>
sanVars  == <<sIn, sMax, sOut, sOut2, sPhase>>
sumVars  == <<mBlog, mSummary, mErr, mOut, mPhase>>
tblVars  == <<tBlog, tTable, tTarget, tErr, tOut, tPhase>>
addVars  == <<aKind, aBlog, aTarget, aPc, aCand, aCalls, aVerdicts, aPlaced, aRaised, aResult>>
vars     == <<blogVars, sanVars, sumVars, tblVars, addVars>>

(***************************************************************************)
(* Characters and the str methods the code calls                           *)
(***************************************************************************)
NUL == "NUL"                        \* the character "\x00"
EMDASH == "EM"                      \* the character U+2014
ENDASH == "EN"                      \* the character U+2013
BACKTICK == "BT"                    \* the character U+0060
DASH_FORBIDDEN == <<EMDASH, ENDASH>>

UpperLetters == <<"A","B","C","D","E","F","G","H","I","J","K","L","M",
                  "N","O","P","Q","R","S","T","U","V","W","X","Y","Z">>
LowerLetters == <<"a","b","c","d","e","f","g","h","i","j","k","l","m",
                  "n","o","p","q","r","s","t","u","v","w","x","y","z">>
Digits == {"0","1","2","3","4","5","6","7","8","9"}

Range(f) == {f[i] : i \in DOMAIN f}

\* re.IGNORECASE: characters are compared after case folding
Lower(c) ==
    IF c \in Range(UpperLetters)
    THEN LowerLetters[CHOOSE i \in 1..26 : UpperLetters[i] = c]
    ELSE c

\* \s and str.strip's whitespace
Spaces == {" ", "\n", "\t"}
IsSpace(c) == c \in Spaces
\* \w
WordChars == Range(UpperLetters) \cup Range(LowerLetters) \cup Digits \cup {"_"}
IsWord(c) == c \in WordChars
\* [a-zA-Z0-9_-]
LangChars == WordChars \cup {"-"}

Min(a, b) == IF a < b THEN a ELSE b

\* s[i:] and s[:n], 1-based
Drop(s, n) == SubSeq(s, n + 1, Len(s))
Take(s, n) == SubSeq(s, 1, Min(n, Len(s)))

\* length of the longest prefix of s[from..] whose characters are in the class C
RunLen(s, from, C) ==
    IF from > Len(s) THEN 0
    ELSE IF \A i \in from..Len(s) : s[i] \in C
    THEN Len(s) - from + 1
    ELSE (CHOOSE i \in from..Len(s) :
              s[i] \notin C /\ \A j \in from..(i-1) : s[j] \in C) - from

\* the same for a negated class [^...]: the characters are not in C
RunLenNot(s, from, C) ==
    IF from > Len(s) THEN 0
    ELSE IF \A i \in from..Len(s) : s[i] \notin C
    THEN Len(s) - from + 1
    ELSE (CHOOSE i \in from..Len(s) :
              s[i] \in C /\ \A j \in from..(i-1) : s[j] \notin C) - from

LStrip(s) == Drop(s, RunLen(s, 1, Spaces))

RStrip(s) ==
    IF \A i \in 1..Len(s) : IsSpace(s[i]) THEN <<>>
    ELSE Take(s, CHOOSE i \in 1..Len(s) :
                     ~IsSpace(s[i]) /\ \A j \in (i+1)..Len(s) : IsSpace(s[j]))

Strip(s) == RStrip(LStrip(s))

\* p occurs in s at position i, literally / ignoring case
MatchAt(s, i, p) ==
    /\ i >= 1
    /\ i + Len(p) - 1 <= Len(s)
    /\ \A k \in 1..Len(p) : s[i + k - 1] = p[k]
MatchAtCI(s, i, p) ==
    /\ i >= 1
    /\ i + Len(p) - 1 <= Len(s)
    /\ \A k \in 1..Len(p) : Lower(s[i + k - 1]) = Lower(p[k])

StartsWith(s, p) == MatchAt(s, 1, p)
EndsWith(s, p) == MatchAt(s, Len(s) - Len(p) + 1, p)
Contains(s, p) == \E i \in 1..(Len(s) + 1) : MatchAt(s, i, p)
ContainsCI(s, p) == \E i \in 1..(Len(s) + 1) : MatchAtCI(s, i, p)

\* least position >= from where p occurs (0: nowhere)
Find(s, p, from) ==
    IF \E i \in from..Len(s) : MatchAt(s, i, p)
    THEN CHOOSE i \in from..Len(s) :
             MatchAt(s, i, p) /\ \A j \in from..(i-1) : ~MatchAt(s, j, p)
    ELSE 0
FindCI(s, p, from) ==
    IF \E i \in from..Len(s) : MatchAtCI(s, i, p)
    THEN CHOOSE i \in from..Len(s) :
             MatchAtCI(s, i, p) /\ \A j \in from..(i-1) : ~MatchAtCI(s, j, p)
    ELSE 0

\* str.replace(c, ""): every occurrence of the character c removed
RECURSIVE RemoveChar(_, _)
RemoveChar(s, c) ==
    IF s = <<>> THEN <<>>
    ELSE IF Head(s) = c THEN RemoveChar(Tail(s), c)
    ELSE <<Head(s)>> \o RemoveChar(Tail(s), c)

\* the concatenation of a sequence of texts
RECURSIVE Flatten(_)
Flatten(ss) == IF ss = <<>> THEN <<>> ELSE Head(ss) \o Flatten(Tail(ss))

\* str.splitlines() on "\n"
RECURSIVE SplitLines(_)
SplitLines(s) ==
    IF s = <<>> THEN <<>>
    ELSE LET nl == Find(s, <<"\n">>, 1)
         IN  IF nl = 0 THEN <<s>>
             ELSE <<Take(s, nl - 1)>> \o SplitLines(Drop(s, nl))

\* "\n".join(lines)
RECURSIVE JoinLines(_)
JoinLines(ls) ==
    IF ls = <<>> THEN <<>>
    ELSE IF Len(ls) = 1 THEN ls[1]
    ELSE ls[1] \o <<"\n">> \o JoinLines(Tail(ls))

(***************************************************************************)
(* sanitize_output                                                         *)
(***************************************************************************)
FENCE == <<BACKTICK, BACKTICK, BACKTICK>>

\* re.sub(r"^```[a-zA-Z0-9_-]*\s*", "", text)
StripLeadingFence(s) ==
    IF ~StartsWith(s, FENCE) THEN s
    ELSE LET lang == RunLen(s, 4, LangChars)
             ws   == RunLen(s, 4 + lang, Spaces)
         IN  Drop(s, 3 + lang + ws)

\* re.sub(r"\s*```$", "", text); the text was stripped, so $ is its end
StripTrailingFence(s) ==
    IF EndsWith(s, FENCE) THEN RStrip(Take(s, Len(s) - 3)) ELSE s

DangerousTags == { <<"s","c","r","i","p","t">>, <<"s","t","y","l","e">>,
                   <<"i","f","r","a","m","e">>, <<"o","b","j","e","c","t">>,
                   <<"e","m","b","e","d">> }

\* the tag name compared letter for letter, as the pattern would without (?i)
TagNameAtExact(s, i, t) == MatchAt(s, i, t)

\* how a tag name of the pattern is compared with the text
TagNameAt(s, i, t) == MatchAtCI(s, i, t)

\* (?is)<(script|style|iframe|object|embed)[^>]*>.*?</\1> matched at i:
\* the position of the match's last character, 0 when there is no match at i
BlockEndAt(s, i) ==
    IF ~(i <= Len(s) /\ s[i] = "<" /\ \E t \in DangerousTags : TagNameAt(s, i + 1, t))
    THEN 0
    ELSE LET t     == CHOOSE t \in DangerousTags : TagNameAt(s, i + 1, t)
             gt    == Find(s, <<">">>, i + 1 + Len(t))
             close == <<"<", "/">> \o t \o <<">">>
             k     == IF gt = 0 THEN 0 ELSE FindCI(s, close, gt + 1)
         IN  IF k = 0 THEN 0 ELSE k + Len(close) - 1

\* re.sub of the block pattern: every non-overlapping match, leftmost first
RECURSIVE RemoveBlocks(_)
RemoveBlocks(s) ==
    IF \A i \in 1..Len(s) : BlockEndAt(s, i) = 0 THEN s
    ELSE LET i == CHOOSE i \in 1..Len(s) :
                      BlockEndAt(s, i) # 0 /\ \A j \in 1..(i-1) : BlockEndAt(s, j) = 0
         IN  Take(s, i - 1) \o RemoveBlocks(Drop(s, BlockEndAt(s, i)))

\* the value part (".*?"|'.*?'|[^\s>]+) matched at p: the position of its last
\* character, 0 when it does not match ('.' matches no newline)
SpaceOrGt == Spaces \cup {">"}
NotSpaceNorGt(c) == c \notin SpaceOrGt
HandlerValueEnd(s, p) ==
    IF p > Len(s) THEN 0
    ELSE LET q == Find(s, <<s[p]>>, p + 1)
         IN  IF s[p] \in {"\"", "'"} /\ q # 0
                  /\ \A j \in (p+1)..(q-1) : s[j] # "\n"
             THEN q
             ELSE IF NotSpaceNorGt(s[p]) THEN p + RunLenNot(s, p, SpaceOrGt) - 1
             ELSE 0

\* (?i)\son\w+\s*=\s*(value) matched at i: the position of the match's last
\* character, 0 when there is no match at i
HandlerEndAt(s, i) ==
    IF ~(i <= Len(s) /\ IsSpace(s[i]) /\ MatchAtCI(s, i + 1, <<"o", "n">>)) THEN 0
    ELSE LET w  == RunLen(s, i + 3, WordChars)
             e  == i + 3 + w + RunLen(s, i + 3 + w, Spaces)
             v  == e + 1 + RunLen(s, e + 1, Spaces)
         IN  IF w = 0 \/ e > Len(s) THEN 0
             ELSE IF s[e] # "=" THEN 0
             ELSE HandlerValueEnd(s, v)

RECURSIVE RemoveHandlers(_)
RemoveHandlers(s) ==
    IF \A i \in 1..Len(s) : HandlerEndAt(s, i) = 0 THEN s
    ELSE LET i == CHOOSE i \in 1..Len(s) :
                      HandlerEndAt(s, i) # 0 /\ \A j \in 1..(i-1) : HandlerEndAt(s, j) = 0
         IN  Take(s, i - 1) \o RemoveHandlers(Drop(s, HandlerEndAt(s, i)))

HREF == <<"h","r","e","f">>
JAVASCRIPT == <<"j","a","v","a","s","c","r","i","p","t",":">>
SAFE_HREF == <<"h","r","e","f","=","\"","#","\"">>

\* (?i)href\s*=\s*("|')\s*javascript:.*?\1 matched at i: the position of the
\* match's last character, 0 when there is no match at i
JsHrefEndAt(s, i) ==
    IF ~MatchAtCI(s, i, HREF) THEN 0
    ELSE LET e  == i + 4 + RunLen(s, i + 4, Spaces)
             q  == e + 1 + RunLen(s, e + 1, Spaces)
             j  == q + 1 + RunLen(s, q + 1, Spaces)
         IN  IF e > Len(s) \/ q > Len(s) THEN 0
             ELSE IF s[e] # "=" \/ s[q] \notin {"\"", "'"} THEN 0
             ELSE IF ~MatchAtCI(s, j, JAVASCRIPT) THEN 0
             ELSE LET c == Find(s, <<s[q]>>, j + Len(JAVASCRIPT))
                  IN  IF c # 0 /\ \A k \in (j + Len(JAVASCRIPT))..(c-1) : s[k] # "\n"
                      THEN c ELSE 0

RECURSIVE NeutralizeJsHrefs(_)
NeutralizeJsHrefs(s) ==
    IF \A i \in 1..Len(s) : JsHrefEndAt(s, i) = 0 THEN s
    ELSE LET i == CHOOSE i \in 1..Len(s) :
                      JsHrefEndAt(s, i) # 0 /\ \A j \in 1..(i-1) : JsHrefEndAt(s, j) = 0
         IN  Take(s, i - 1) \o SAFE_HREF \o NeutralizeJsHrefs(Drop(s, JsHrefEndAt(s, i)))

\* not the code: the cut without the rstrip after it
TruncateOnly(s, max_len) == IF Len(s) > max_len THEN Take(s, max_len) ELSE s

\* if len(text) > max_len: text = text[:max_len].rstrip()
Truncate(s, max_len) == IF Len(s) > max_len THEN RStrip(Take(s, max_len)) ELSE s

sanitize_output(text, max_len) ==
    LET t1 == Strip(RemoveChar(text, NUL))
        t2 == StripTrailingFence(StripLeadingFence(t1))
        t3 == RemoveBlocks(t2)
        t4 == RemoveHandlers(t3)
        t5 == NeutralizeJsHrefs(t4)
    IN  Truncate(Strip(t5), max_len)

(***************************************************************************)
(* Exceptions.  A raised exception is a record: its type, its message      *)
(* (the message's fixed text) and the value the message formats in.        *)
(***************************************************************************)
NoError == [type |-> "none", msg |-> "", arg |-> <<>>]
ValueError(m, a) == [type |-> "ValueError", msg |-> m, arg |-> a]
\* what call_llm raises when the provider fails
LLMError == [type |-> "LLMError", msg |-> "provider failure", arg |-> <<>>]

(***************************************************************************)
(* validate_summary                                                        *)
(***************************************************************************)
MIN_SENTENCES == 4
MAX_SENTENCES == 5

\* [.!?]
Terminators == {".", "!", "?"}

\* re.split(r"[.!?]+", text)
RECURSIVE SplitSentences(_)
SplitSentences(s) ==
    LET n == RunLenNot(s, 1, Terminators)
    IN  IF n = Len(s) THEN <<s>>
        ELSE <<Take(s, n)>>
             \o SplitSentences(Drop(s, n + RunLen(s, n + 1, Terminators)))

\* [s.strip() for s in ... if s.strip()]
RECURSIVE KeepNonBlank(_)
KeepNonBlank(segs) ==
    IF segs = <<>> THEN <<>>
    ELSE IF Strip(Head(segs)) = <<>> THEN KeepNonBlank(Tail(segs))
    ELSE <<Strip(Head(segs))>> \o KeepNonBlank(Tail(segs))

\* summary_block.lstrip(">").strip(), split and filtered
SummarySentences(summary_block) ==
    KeepNonBlank(SplitSentences(
        Strip(Drop(summary_block, RunLen(summary_block, 1, {">"})))))

\* the range test with its lower limit one sentence lower
SentenceCountOkFromThree(n) == MIN_SENTENCES - 1 <= n /\ n <= MAX_SENTENCES

\* 4 <= len(sentences) <= 5
SentenceCountOk(n) == MIN_SENTENCES <= n /\ n <= MAX_SENTENCES

validate_summary(summary_block) ==
    IF ~StartsWith(Strip(summary_block), <<">">>)
    THEN ValueError("Summary must be a single Markdown blockquote starting with '>'.", <<>>)
    ELSE IF \E i \in 1..Len(DASH_FORBIDDEN) : Contains(summary_block, <<DASH_FORBIDDEN[i]>>)
    THEN ValueError("Summary contains a forbidden dash character.", <<>>)
    ELSE IF ~SentenceCountOk(Len(SummarySentences(summary_block)))
    THEN ValueError("Summary must be 4-5 sentences. Found", Len(SummarySentences(summary_block)))
    ELSE NoError

(***************************************************************************)
(* inject_summary_at_top                                                   *)
(***************************************************************************)
H1_PREFIX == <<"#", " ">>
H2_PREFIX == <<"#", "#", " ">>
NL == <<"\n">>

\* "\n".join(out).strip() + "\n"
JoinStripNewline(out) == Strip(JoinLines(out)) \o NL

\* the summary always put before all the content, whatever the first line is
inject_summary_before_all(blog_md, summary_block) ==
    Strip(summary_block) \o NL \o NL \o Strip(blog_md) \o NL

inject_summary_at_top(blog_md, summary_block) ==
    LET lines == SplitLines(blog_md)
    IN  IF lines # <<>> /\ StartsWith(lines[1], H1_PREFIX)
        THEN JoinStripNewline(<<lines[1], <<>>, Strip(summary_block), <<>>>> \o Tail(lines))
        ELSE Strip(summary_block) \o NL \o NL \o Strip(blog_md) \o NL

(***************************************************************************)
(* insert_table_into_blog                                                  *)
(***************************************************************************)
COMMENT_MARKER == <<"<","!","-","-"," ","C","o","m","p","a","r","i","s","o","n",
                    " ","T","a","b","l","e"," ","-","-",">">>

\* re.compile(rf"^##\s+{re.escape(match_text)}\s*$", re.IGNORECASE).match(ln)
H2PatternMatches(ln, match_text) ==
    /\ StartsWith(ln, <<"#", "#">>)
    /\ \E k \in 1..(Len(ln) - 2) :
          /\ \A j \in 3..(2 + k) : IsSpace(ln[j])
          /\ MatchAtCI(ln, 3 + k, match_text)
          /\ \A j \in (3 + k + Len(match_text))..Len(ln) : IsSpace(ln[j])

\* find_h2_index: the 1-based index of the first matching line, 0 for None
find_h2_index(lines, match_text) ==
    IF match_text = <<>> THEN 0
    ELSE IF \E i \in 1..Len(lines) : H2PatternMatches(Strip(lines[i]), match_text)
    THEN CHOOSE i \in 1..Len(lines) :
             /\ H2PatternMatches(Strip(lines[i]), match_text)
             /\ \A j \in 1..(i-1) : ~H2PatternMatches(Strip(lines[j]), match_text)
    ELSE 0

\* not the code: the search for a first H2 left out
h2_fallback_skipped(lines) == 0

\* the first line that starts with "## ", 0 when there is none
first_h2_index(lines) ==
    IF \E i \in 1..Len(lines) : StartsWith(lines[i], H2_PREFIX)
    THEN CHOOSE i \in 1..Len(lines) :
             /\ StartsWith(lines[i], H2_PREFIX)
             /\ \A j \in 1..(i-1) : ~StartsWith(lines[j], H2_PREFIX)
    ELSE 0

\* ["", "<!-- Comparison Table -->", table_html.strip(), ""]
insert_block(table_html) == <<<<>>, COMMENT_MARKER, Strip(table_html), <<>>>>

\* the table always put after the first H2, whatever heading is asked for
insert_table_after_first_h2(blog_md, table_html, after_heading) ==
    LET lines == SplitLines(blog_md)
        idx   == first_h2_index(lines)
    IN  IF idx # 0
        THEN JoinStripNewline(SubSeq(lines, 1, idx) \o insert_block(table_html)
                              \o SubSeq(lines, idx + 1, Len(lines)))
        ELSE IF lines # <<>> /\ StartsWith(lines[1], H1_PREFIX)
        THEN JoinStripNewline(<<lines[1]>> \o insert_block(table_html) \o Tail(lines))
        ELSE Strip(JoinLines(insert_block(table_html))) \o NL \o NL \o Strip(blog_md) \o NL

\* after_heading is <<>> for None (and for "", which the code treats alike)
insert_table_into_blog(blog_md, table_html, after_heading) ==
    LET lines == SplitLines(blog_md)
        found == find_h2_index(lines, after_heading)
        idx   == IF found # 0 THEN found ELSE first_h2_index(lines)
    IN  IF idx # 0
        THEN JoinStripNewline(SubSeq(lines, 1, idx) \o insert_block(table_html)
                              \o SubSeq(lines, idx + 1, Len(lines)))
        ELSE IF lines # <<>> /\ StartsWith(lines[1], H1_PREFIX)
        THEN JoinStripNewline(<<lines[1]>> \o insert_block(table_html) \o Tail(lines))
        ELSE Strip(JoinLines(insert_block(table_html))) \o NL \o NL \o Strip(blog_md) \o NL

(***************************************************************************)
(* validate_html_table                                                     *)
(***************************************************************************)
TABLE_OPEN == <<"<","t","a","b","l","e">>
TABLE_CLOSE == <<"<","/","t","a","b","l","e",">">>
required_tags == << <<"<","t","h","e","a","d">>, <<"<","t","b","o","d","y">>,
                    <<"<","t","r">>, <<"<","t","h">>, <<"<","t","d">> >>

\* len(re.findall(r"<table\b", stripped, flags=re.IGNORECASE))
CountOpenTables(s) ==
    Cardinality({i \in 1..Len(s) :
        /\ MatchAtCI(s, i, TABLE_OPEN)
        /\ (i + 6 > Len(s) \/ ~IsWord(s[i + 6]))})
\* len(re.findall(r"</table>", stripped, flags=re.IGNORECASE))
CountCloseTables(s) == Cardinality({i \in 1..Len(s) : MatchAtCI(s, i, TABLE_CLOSE)})

validate_html_table(table_html) ==
    LET stripped == Strip(table_html)
        missing  == {i \in 1..Len(required_tags) : ~ContainsCI(stripped, required_tags[i])}
    IN  IF \E i \in 1..Len(DASH_FORBIDDEN) : Contains(table_html, <<DASH_FORBIDDEN[i]>>)
        THEN ValueError("Table contains a forbidden dash character.", <<>>)
        ELSE IF Contains(stripped, FENCE)
        THEN ValueError("Table must be raw HTML only (no code fences).", <<>>)
        ELSE IF CountOpenTables(stripped) # 1 \/ CountCloseTables(stripped) # 1
        THEN ValueError("Output must contain exactly one <table>...</table>.", <<>>)
        ELSE IF missing # {}
        THEN ValueError("Missing required HTML tag:",
                        required_tags[CHOOSE i \in missing : \A j \in missing : i <= j])
        ELSE NoError

(***************************************************************************)
(* Blog validators.  Line 398 of the source reads                          *)
(*     re.findall(r"https?://[^"]+", md)                                   *)
(* whose character class is taken as written: [^"], every character but    *)
(* the double quote.                                                       *)
(***************************************************************************)
MIN_CITATIONS == 6
FAQ_QUESTIONS == 4

FAQ_HEADING == <<"#","#"," ","F","A","Q","s">>
BRAND_HTTPS == <<"h","t","t","p","s",":","/","/","b","i","t","x","c","a","p","i","t","a","l",".","c","o","m">>
BRAND_HTTP == <<"h","t","t","p",":","/","/","b","i","t","x","c","a","p","i","t","a","l",".","c","o","m">>

validate_no_dashes(md) ==
    IF \E i \in 1..Len(DASH_FORBIDDEN) : Contains(md, <<DASH_FORBIDDEN[i]>>)
    THEN ValueError("Found forbidden dash character.", <<>>)
    ELSE NoError

\* ^\*\*Q([1-4]):.*\?\*\*\s*$ on one line of the text (re.MULTILINE)
IsFaqQuestionLine(ln) ==
    /\ StartsWith(ln, <<"*","*","Q">>)
    /\ Len(ln) >= 5
    /\ ln[4] \in {"1","2","3","4"}
    /\ ln[5] = ":"
    /\ \E p \in 6..Len(ln) :
          /\ MatchAt(ln, p, <<"?","*","*">>)
          /\ \A j \in (p + 3)..Len(ln) : IsSpace(ln[j])

CountFaqQuestions(md) ==
    LET lines == SplitLines(md)
    IN  Cardinality({i \in 1..Len(lines) : IsFaqQuestionLine(lines[i])})

validate_faqs(md) ==
    LET n == CountFaqQuestions(md)
    IN  IF ~Contains(md, FAQ_HEADING)
        THEN ValueError("Missing '## FAQs' section.", <<>>)
        ELSE IF n # FAQ_QUESTIONS
        THEN ValueError("Expected exactly 4 FAQ questions (Q1-Q4). Found", n)
        ELSE NoError

\* CITATION_PATTERN = \(Source\s[12]\)
CitationAt(s, i) ==
    /\ MatchAt(s, i, <<"(","S","o","u","r","c","e">>)
    /\ i + 9 <= Len(s)
    /\ IsSpace(s[i + 7])
    /\ s[i + 8] \in {"1", "2"}
    /\ s[i + 9] = ")"
CountCitations(md) == Cardinality({i \in 1..Len(md) : CitationAt(md, i)})

\* not the code: the threshold one citation lower
TooFewCitationsLax(n) == n < MIN_CITATIONS - 1

\* len(cites) < 6
TooFewCitations(n) == n < MIN_CITATIONS

validate_has_citations(md) ==
    IF TooFewCitations(CountCitations(md))
    THEN ValueError("Too few citations. Add more supported claims with (Source 1)/(Source 2).", <<>>)
    ELSE NoError

\* https?://[^"]+ matched at i: the position of the match's last character, 0
\* when there is no match at i
UrlEndAt(s, i) ==
    LET p == IF MatchAt(s, i, <<"h","t","t","p","s",":","/","/">>) THEN i + 8
             ELSE IF MatchAt(s, i, <<"h","t","t","p",":","/","/">>) THEN i + 7
             ELSE 0
        n == RunLenNot(s, p, {"\""})
    IN  IF p = 0 THEN 0 ELSE IF n = 0 THEN 0 ELSE p + n - 1

\* set(re.findall(...)): the non-overlapping matches, leftmost first
RECURSIVE FoundUrls(_)
FoundUrls(s) ==
    LET starts == {i \in 1..Len(s) : UrlEndAt(s, i) # 0}
        i == CHOOSE i \in starts : \A j \in starts : i <= j
    IN  IF starts = {} THEN {}
        ELSE {SubSeq(s, i, UrlEndAt(s, i))} \cup FoundUrls(Drop(s, UrlEndAt(s, i)))

AllowedUrls(srcs) == {srcs[1], srcs[2], BRAND_HTTPS, BRAND_HTTP}

\* arg of the second error: the extra links (the code lists the first 5, sorted)
validate_two_sources_only(md, srcs) ==
    LET missing == {i \in 1..Len(srcs) : ~Contains(md, srcs[i])}
        extras  == FoundUrls(md) \ AllowedUrls(srcs)
    IN  IF missing # {}
        THEN ValueError("Missing backlink to required source:",
                        srcs[CHOOSE i \in missing : \A j \in missing : i <= j])
        ELSE IF extras # {}
        THEN ValueError("Found disallowed external links:", extras)
        ELSE NoError

\* validate_all: the four validators in order; the first exception leaves it
validate_all(md, srcs) ==
    LET dashes == validate_no_dashes(md)
        faqs   == validate_faqs(md)
        cites  == validate_has_citations(md)
    IN  IF dashes # NoError THEN dashes
        ELSE IF faqs # NoError THEN faqs
        ELSE IF cites # NoError THEN cites
        ELSE validate_two_sources_only(md, srcs)

(***************************************************************************)
(* The collaborators of generate_blog_with_two_sources, and what they can  *)
(* hand back.  call_llm returns a text or raises; the texts are a valid    *)
(* blog with up to MaxDefects of the Variations applied.                   *)
(***************************************************************************)
MaxDefects == 2

NoText == <<"NoText">>
U1 == <<"h","t","t","p",":","/","/","a">>
U2 == <<"h","t","t","p","s",":","/","/","b">>
U3 == <<"h","t","t","p",":","/","/","c">>
Quoted(u) == <<"\"">> \o u \o <<"\"">>
CITATION == <<"(","S","o","u","r","c","e"," ","1",")">>
Question(d) == <<"*","*","Q",d,":"," ","a","?","*","*">>

RECURSIVE Repeat(_, _)
Repeat(s, n) == IF n = 0 THEN <<>> ELSE s \o Repeat(s, n - 1)

Variations == {"dash", "nofaq", "q3", "cite5", "nosrc2", "extra", "brand"}

Doc(D) ==
    JoinLines(
        << <<"#"," ","T">> >>
        \o (IF "dash" \in D THEN << <<"x", EMDASH, "y">> >> ELSE <<>>)
        \o << Repeat(CITATION, IF "cite5" \in D THEN MIN_CITATIONS - 1 ELSE MIN_CITATIONS) >>
        \o << Quoted(U1) >>
        \o (IF "nosrc2" \in D THEN <<>> ELSE << Quoted(U2) >>)
        \o (IF "extra" \in D THEN << Quoted(U3) >> ELSE <<>>)
        \o (IF "brand" \in D THEN << Quoted(BRAND_HTTPS) >> ELSE <<>>)
        \o (IF "nofaq" \in D THEN <<>> ELSE << FAQ_HEADING >>)
        \o << Question("1"), Question("2"), Question("3") >>
        \o (IF "q3" \in D THEN <<>> ELSE << Question("4") >>))

GeneratorOutputs == {Doc(D) : D \in {D \in SUBSET Variations : Cardinality(D) <= MaxDefects}}

\* web_search_two_results: the URL lists it can return
SearchResults == {<<U1, U2>>, <<U1>>}
SearchError == [type |-> "SearchError", msg |-> "search failure", arg |-> <<>>]

WriteMessage(srcs) == [kind |-> "write", errors |-> NoError, blog |-> NoText, sources |-> srcs]
\* the repair prompt: "Errors: {str(e)}" and "BLOG: {draft}", under the same system message
RepairMessage(e, draft, srcs) == [kind |-> "repair", errors |-> e, blog |-> draft, sources |-> srcs]

Returned(msg, text) == [msg |-> msg, ok |-> TRUE, text |-> text]
Failed(msg) == [msg |-> msg, ok |-> FALSE, text |-> NoText]

(***************************************************************************)
(* generate_blog_with_two_sources, one step per call it makes              *)
(***************************************************************************)
idleSan == sIn = <<>> /\ sMax = 0 /\ sOut = <<>> /\ sOut2 = <<>> /\ sPhase = "idle"
idleSum == mBlog = <<>> /\ mSummary = <<>> /\ mErr = NoError /\ mOut = <<>> /\ mPhase = "idle"
idleTbl == tBlog = <<>> /\ tTable = <<>> /\ tTarget = <<>> /\ tErr = NoError
           /\ tOut = <<>> /\ tPhase = "idle"
idleBlog == pc = "idle" /\ sources = <<>> /\ calls = <<>> /\ verdicts = <<>>
            /\ raised = NoError /\ result = NoText
idleAdd == aKind = "none" /\ aBlog = <<>> /\ aTarget = <<>> /\ aPc = "idle"
           /\ aCand = NoText /\ aCalls = <<>> /\ aVerdicts = <<>>
           /\ aPlaced = NoText /\ aRaised = NoError /\ aResult = NoText

BlogStart ==
    /\ pc = "search"
    /\ sources = <<>>
    /\ calls = <<>>
    /\ verdicts = <<>>
    /\ raised = NoError
    /\ result = NoText

Init == BlogStart /\ idleSan /\ idleSum /\ idleTbl /\ idleAdd

\* raise: the exception leaves the function
Raise(e) ==
    /\ pc' = "raised"
    /\ raised' = e
    /\ UNCHANGED result

\* urls = web_search_two_results(keyword); if len(urls) != 2: raise
Search ==
    /\ pc = "search"
    /\ \/ /\ Raise(SearchError)
          /\ UNCHANGED sources
       \/ \E urls \in SearchResults :
             IF Len(urls) # 2
             THEN Raise(ValueError("Search must return exactly 2 URLs.", <<>>))
                  /\ UNCHANGED sources
             ELSE /\ sources' = urls
                  /\ pc' = "load"
                  /\ UNCHANGED <<raised, result>>
    /\ UNCHANGED <<calls, verdicts, sanVars, sumVars, tblVars, addVars>>

\* sources = load_sources(urls)
LoadSources ==
    /\ pc = "load"
    /\ \/ \E i \in 1..Len(sources) :
             Raise(ValueError("Source too thin or blocked:", sources[i]))
       \/ /\ pc' = "draft_call"
          /\ UNCHANGED <<raised, result>>
    /\ UNCHANGED <<sources, calls, verdicts, sanVars, sumVars, tblVars, addVars>>

\* not the code: the first call inside the try, its failure handled as a failed validation
CallDraftCaught ==
    /\ pc = "draft_call"
    /\ \/ /\ calls' = Append(calls, Failed(WriteMessage(sources)))
          /\ verdicts' = Append(verdicts, LLMError)
          /\ pc' = "repair_call"
          /\ UNCHANGED <<raised, result>>
       \/ \E text \in GeneratorOutputs :
             /\ calls' = Append(calls, Returned(WriteMessage(sources), text))
             /\ pc' = "validate_draft"
             /\ UNCHANGED <<raised, result, verdicts>>
    /\ UNCHANGED <<sources, sanVars, sumVars, tblVars, addVars>>

\* draft = call_llm(messages), outside the try
CallDraft ==
    /\ pc = "draft_call"
    /\ \/ /\ calls' = Append(calls, Failed(WriteMessage(sources)))
          /\ Raise(LLMError)
       \/ \E text \in GeneratorOutputs :
             /\ calls' = Append(calls, Returned(WriteMessage(sources), text))
             /\ pc' = "validate_draft"
             /\ UNCHANGED <<raised, result>>
    /\ UNCHANGED <<sources, verdicts, sanVars, sumVars, tblVars, addVars>>

\* not the code: a draft that passes is sent to repair all the same
ValidateDraftAlwaysRepairs ==
    /\ pc = "validate_draft"
    /\ LET draft == calls[1].text
           e     == validate_all(draft, sources)
       IN  /\ verdicts' = Append(verdicts, e)
           /\ pc' = "repair_call"
           /\ UNCHANGED result
    /\ UNCHANGED <<sources, calls, raised, sanVars, sumVars, tblVars, addVars>>

\* try: validate_all(draft, sources); return draft / except Exception as e:
ValidateDraft ==
    /\ pc = "validate_draft"
    /\ LET draft == calls[1].text
           e     == validate_all(draft, sources)
       IN  /\ verdicts' = Append(verdicts, e)
           /\ IF e = NoError
              THEN /\ result' = draft
                   /\ pc' = "returned"
              ELSE /\ pc' = "repair_call"
                   /\ UNCHANGED result
    /\ UNCHANGED <<sources, calls, raised, sanVars, sumVars, tblVars, addVars>>

\* repaired = call_llm([system, repair_prompt]), inside the except block
CallRepair ==
    /\ pc = "repair_call"
    /\ LET msg == RepairMessage(verdicts[1], calls[1].text, sources)
       IN  \/ /\ calls' = Append(calls, Failed(msg))
              /\ Raise(LLMError)
           \/ \E text \in GeneratorOutputs :
                 /\ calls' = Append(calls, Returned(msg, text))
                 /\ pc' = "validate_repaired"
                 /\ UNCHANGED <<raised, result>>
    /\ UNCHANGED <<sources, verdicts, sanVars, sumVars, tblVars, addVars>>

\* not the code: the second failure re-raises the first attempt's exception
ValidateRepairedRaisesFirst ==
    /\ pc = "validate_repaired"
    /\ LET repaired == calls[2].text
           e        == validate_all(repaired, sources)
       IN  /\ verdicts' = Append(verdicts, e)
           /\ IF e = NoError
              THEN /\ result' = repaired
                   /\ pc' = "returned"
                   /\ UNCHANGED raised
              ELSE Raise(verdicts[1])
    /\ UNCHANGED <<sources, calls, sanVars, sumVars, tblVars, addVars>>

\* not the code: after a repair that validates, the stale draft is returned
ValidateRepairedReturnsDraft ==
    /\ pc = "validate_repaired"
    /\ LET repaired == calls[2].text
           e        == validate_all(repaired, sources)
       IN  /\ verdicts' = Append(verdicts, e)
           /\ IF e = NoError
              THEN /\ result' = calls[1].text
                   /\ pc' = "returned"
                   /\ UNCHANGED raised
              ELSE Raise(e)
    /\ UNCHANGED <<sources, calls, sanVars, sumVars, tblVars, addVars>>

\* validate_all(repaired, sources); return repaired
ValidateRepaired ==
    /\ pc = "validate_repaired"
    /\ LET repaired == calls[2].text
           e        == validate_all(repaired, sources)
       IN  /\ verdicts' = Append(verdicts, e)
           /\ IF e = NoError
              THEN /\ result' = repaired
                   /\ pc' = "returned"
                   /\ UNCHANGED raised
              ELSE Raise(e)
    /\ UNCHANGED <<sources, calls, sanVars, sumVars, tblVars, addVars>>

\* the function has returned or raised; it is called for the next artifact
NextArtifact ==
    /\ pc \in {"returned", "raised"}
    /\ pc' = "search"
    /\ sources' = <<>>
    /\ calls' = <<>>
    /\ verdicts' = <<>>
    /\ raised' = NoError
    /\ result' = NoText
    /\ UNCHANGED <<sanVars, sumVars, tblVars, addVars>>

Next ==
    \/ Search
    \/ LoadSources
    \/ CallDraft
    \/ ValidateDraft
    \/ CallRepair
    \/ ValidateRepaired
    \/ NextArtifact

Spec == Init /\ [][Next]_vars

(***************************************************************************)
(* sanitize_output applied to a text, then to its own result               *)
(***************************************************************************)
MaxPieces == 3
SmallMaxLen == 3
DEFAULT_MAX_LEN == 20000

SCRIPT_OPEN == <<"<","s","c","r","i","p","t",">">>
SCRIPT_CLOSE == <<"<","/","s","c","r","i","p","t",">">>

SanVocab ==
    { <<"a">>, <<" ">>, <<"\n">>, <<NUL>>, FENCE, <<" ","o","n","x","=","1">>,
      <<"h","r","e","f","=","\"","j","a","v","a","s","c","r","i","p","t",":","a","\"">> }

\* every concatenation of at most MaxPieces pieces
FreeInputs ==
    UNION { {Flatten(ps) : ps \in [1..n -> SanVocab]} : n \in 0..MaxPieces }

\* a script element between two texts
ScriptPre == { <<>>, <<"a"," ">>, <<"a","\n","b">>, <<"<","s","c","r">> }
ScriptOpenTags == { SCRIPT_OPEN, <<"<","S","C","R","I","P","T",">">>,
                    <<"<","S","c","R","i","P","t"," ","x",">">>,
                    <<"<","s","C","r","i","p","t","\n",">">> }
ScriptInner == { <<>>, <<"x">>, <<"a","\n","<","b",">">>, SCRIPT_OPEN,
                 <<NUL, "<","/","s","t","y","l","e",">">> }
ScriptCloseTags == { SCRIPT_CLOSE, <<"<","/","S","C","R","I","P","T",">">>,
                     <<"<","/","s","c","R","I","p","t",">">> }
ScriptPost == { <<>>, <<" ","c">>, <<"d","\n">>, <<"i","p","t",">","y">> \o SCRIPT_CLOSE }
ScriptInputs ==
    { pre \o open \o inner \o close \o post :
        pre \in ScriptPre, open \in ScriptOpenTags, inner \in ScriptInner,
        close \in ScriptCloseTags, post \in ScriptPost }

InitSanitize ==
    /\ idleBlog /\ idleSum /\ idleTbl /\ idleAdd
    /\ sIn \in FreeInputs \cup ScriptInputs
    /\ sMax \in {0, SmallMaxLen, DEFAULT_MAX_LEN}
    /\ sOut = <<>>
    /\ sOut2 = <<>>
    /\ sPhase = "in"

SanitizeText ==
    /\ sPhase = "in"
    /\ sOut' = sanitize_output(sIn, sMax)
    /\ sPhase' = "once"
    /\ UNCHANGED <<sIn, sMax, sOut2, blogVars, sumVars, tblVars, addVars>>

SanitizeAgain ==
    /\ sPhase = "once"
    /\ sOut2' = sanitize_output(sOut, sMax)
    /\ sPhase' = "twice"
    /\ UNCHANGED <<sIn, sMax, sOut, blogVars, sumVars, tblVars, addVars>>

NextSanitize == SanitizeText \/ SanitizeAgain

SpecSanitize == InitSanitize /\ [][NextSanitize]_vars

(***************************************************************************)
(* validate_summary and inject_summary_at_top applied to a summary block   *)
(***************************************************************************)
MaxSentences == 6

SummaryPrefixes == { <<">">>, <<">"," ">>, <<" ",">"," ">>, <<>>, <<">",">">>,
                     <<">"," ","x",EMDASH>>, <<">"," ",ENDASH>> }
SentencePieces == { <<"a",".">>, <<" ","b","!","?">>, <<" ","."," ">> }
SummaryInputs ==
    { pre \o Flatten(ps) :
        pre \in SummaryPrefixes,
        ps \in UNION { [1..n -> SentencePieces] : n \in 0..MaxSentences } }

TITLE_BODY == <<"#"," ","T","i","t","l","e","\n","B","o","d","y">>
FOUR_SENTENCES == <<">"," ","S","1","."," ","S","2","."," ","S","3","."," ","S","4",".">>

SummaryBlogs == { TITLE_BODY, <<"B","o","d","y">>, <<"#"," ","T">>, <<>>,
                  <<"#"," ","T","\n","\n","x"," ","\n","\n">>,
                  <<"\n","#"," ","T","\n","x">>, <<"#","T","\n","x">>,
                  <<"#"," ","T","\n"," ","x","\n","y">> }
InjectSummaries == { FOUR_SENTENCES, <<" ",">"," ","a","."," ","\n">>, <<>> }

InitSummary ==
    /\ idleBlog /\ idleSan /\ idleTbl /\ idleAdd
    /\ \/ mBlog = TITLE_BODY /\ mSummary \in SummaryInputs
       \/ mBlog \in SummaryBlogs /\ mSummary \in InjectSummaries
    /\ mErr = NoError
    /\ mOut = <<>>
    /\ mPhase = "in"

ValidateSummary ==
    /\ mPhase = "in"
    /\ mErr' = validate_summary(mSummary)
    /\ mPhase' = "validated"
    /\ UNCHANGED <<mBlog, mSummary, mOut, blogVars, sanVars, tblVars, addVars>>

InjectSummary ==
    /\ mPhase = "validated"
    /\ mOut' = inject_summary_at_top(mBlog, mSummary)
    /\ mPhase' = "injected"
    /\ UNCHANGED <<mBlog, mSummary, mErr, blogVars, sanVars, tblVars, addVars>>

NextSummary == ValidateSummary \/ InjectSummary

SpecSummary == InitSummary /\ [][NextSummary]_vars

(***************************************************************************)
(* validate_html_table and insert_table_into_blog                          *)
(***************************************************************************)
MaxLines == 4

BlogLines == { <<"#","#"," ","P","r","i","c","i","n","g">>,
               <<" ","#","#"," "," ","P","R","I","C","I","N","G"," ">>,
               <<"#","#"," ","O","t","h","e","r">>,
               <<"#"," ","T">>, <<"x">>, <<>> }
TableBlogs ==
    { JoinLines(ls) : ls \in UNION { [1..n -> BlogLines] : n \in 0..MaxLines } }

SMALL_TABLE == <<"<","t","a","b","l","e",">","<","/","t","a","b","l","e",">">>
InsertTables == { <<" ">> \o SMALL_TABLE \o <<"\n">> }
Targets == { <<"p","r","i","c","i","n","g">>, <<>> }

TagText(name) == <<"<">> \o name \o <<">">>
TableParts == << TagText(<<"t","h","e","a","d">>), TagText(<<"t","b","o","d","y">>),
                 TagText(<<"t","r">>), TagText(<<"t","h">>), TagText(<<"t","d">>) >>
\* a table holding the parts whose indices are in K, in n <table> elements
TableWith(K, n) ==
    Repeat(TagText(<<"t","a","b","l","e">>), n)
    \o Flatten([i \in 1..Len(TableParts) |-> IF i \in K THEN TableParts[i] ELSE <<>>])
    \o TABLE_CLOSE
TableInputs ==
    { TableWith(K, n) : K \in SUBSET (1..Len(TableParts)), n \in {1, 2} }
    \cup { TableWith(1..Len(TableParts), 1) \o <<EMDASH>>,
           FENCE \o TableWith(1..Len(TableParts), 1) }

InitTable ==
    /\ idleBlog /\ idleSan /\ idleSum /\ idleAdd
    /\ \/ tBlog \in TableBlogs /\ tTable \in InsertTables /\ tTarget \in Targets
       \/ tBlog = TITLE_BODY /\ tTable \in TableInputs /\ tTarget = <<>>
    /\ tErr = NoError
    /\ tOut = <<>>
    /\ tPhase = "in"

ValidateTable ==
    /\ tPhase = "in"
    /\ tErr' = validate_html_table(tTable)
    /\ tPhase' = "validated"
    /\ UNCHANGED <<tBlog, tTable, tTarget, tOut, blogVars, sanVars, sumVars, addVars>>

InsertTable ==
    /\ tPhase = "validated"
    /\ tOut' = insert_table_into_blog(tBlog, tTable, tTarget)
    /\ tPhase' = "inserted"
    /\ UNCHANGED <<tBlog, tTable, tTarget, tErr, blogVars, sanVars, sumVars, addVars>>

NextTable == ValidateTable \/ InsertTable

SpecTable == InitTable /\ [][NextTable]_vars

(***************************************************************************)
(* add_top_summary and add_html_comparison_table, one step per call made.  *)
(* The two functions have the same shape; aKind says which one runs.       *)
(***************************************************************************)
FULL_TABLE == TableWith(1..Len(TableParts), 1)

\* what call_llm can return for a summary request
SummaryOutputs ==
    { <<" ">> \o FOUR_SENTENCES \o <<"\n">>,
      <<">"," ","a","."," ","b","."," ","c",".">>,
      <<"S","1","."," ","S","2","."," ","S","3","."," ","S","4",".">>,
      FOUR_SENTENCES \o <<" ","x",EMDASH,"y",".">> }

\* what call_llm can return for a table request
TableOutputs ==
    { <<"\n">> \o FULL_TABLE \o <<" ">>,
      TableWith(2..Len(TableParts), 1),
      TableWith(1..Len(TableParts), 2),
      FENCE \o FULL_TABLE }

AddOutputs(kind) == IF kind = "summary" THEN SummaryOutputs ELSE TableOutputs

AddBlogs == { TITLE_BODY,
              JoinLines(<< <<"#","#"," ","O","t","h","e","r">>,
                           <<"#","#"," ","P","r","i","c","i","n","g">>, <<"x">> >>) }

\* validate_summary(summary) / validate_html_table(table_html)
Validation(kind, text) ==
    IF kind = "summary" THEN validate_summary(text) ELSE validate_html_table(text)

\* inject_summary_at_top(blog_md, summary) /
\* insert_table_into_blog(blog_md, table_html, after_heading=after_heading)
Placement(kind, blog_md, text, after_heading) ==
    IF kind = "summary" THEN inject_summary_at_top(blog_md, text)
    ELSE insert_table_into_blog(blog_md, text, after_heading)

AddWriteMessage(kind, blog_md) ==
    [kind |-> "write", artifact |-> kind, blog |-> blog_md, errors |-> NoError, bad |-> NoText]
\* the repair prompt: "Error: {str(e)}" and the failed summary / HTML
AddRepairMessage(kind, blog_md, e, bad) ==
    [kind |-> "repair", artifact |-> kind, blog |-> blog_md, errors |-> e, bad |-> bad]

InitAdd ==
    /\ idleBlog /\ idleSan /\ idleSum /\ idleTbl
    /\ aKind \in {"summary", "table"}
    /\ aBlog \in AddBlogs
    /\ aTarget \in (IF aKind = "table" THEN Targets ELSE {<<>>})
    /\ aPc = "first_call"
    /\ aCand = NoText
    /\ aCalls = <<>>
    /\ aVerdicts = <<>>
    /\ aPlaced = NoText
    /\ aRaised = NoError
    /\ aResult = NoText

AddRaise(e) ==
    /\ aPc' = "raised"
    /\ aRaised' = e

\* summary = call_llm(messages, model=model).strip(), outside the try
AddCallFirst ==
    /\ aPc = "first_call"
    /\ LET msg == AddWriteMessage(aKind, aBlog)
       IN  \/ /\ aCalls' = Append(aCalls, Failed(msg))
              /\ AddRaise(LLMError)
              /\ UNCHANGED aCand
           \/ \E text \in AddOutputs(aKind) :
                 /\ aCalls' = Append(aCalls, Returned(msg, text))
                 /\ aCand' = Strip(text)
                 /\ aPc' = "validate_first"
                 /\ UNCHANGED aRaised
    /\ UNCHANGED <<aKind, aBlog, aTarget, aVerdicts, aPlaced, aResult,
                   blogVars, sanVars, sumVars, tblVars>>

\* try: validate_summary(summary) / except Exception as e:
AddValidateFirst ==
    /\ aPc = "validate_first"
    /\ LET e == Validation(aKind, aCand)
       IN  /\ aVerdicts' = Append(aVerdicts, e)
           /\ aPc' = IF e = NoError THEN "place" ELSE "repair_call"
    /\ UNCHANGED <<aKind, aBlog, aTarget, aCand, aCalls, aPlaced, aRaised, aResult,
                   blogVars, sanVars, sumVars, tblVars>>

\* summary = call_llm([system, repair], model=model).strip(), in the except block
AddCallRepair ==
    /\ aPc = "repair_call"
    /\ LET msg == AddRepairMessage(aKind, aBlog, aVerdicts[1], aCand)
       IN  \/ /\ aCalls' = Append(aCalls, Failed(msg))
              /\ AddRaise(LLMError)
              /\ UNCHANGED aCand
           \/ \E text \in AddOutputs(aKind) :
                 /\ aCalls' = Append(aCalls, Returned(msg, text))
                 /\ aCand' = Strip(text)
                 /\ aPc' = "validate_repaired"
                 /\ UNCHANGED aRaised
    /\ UNCHANGED <<aKind, aBlog, aTarget, aVerdicts, aPlaced, aResult,
                   blogVars, sanVars, sumVars, tblVars>>

\* not the code: a repaired text that fails is placed all the same
AddValidateRepairedLenient ==
    /\ aPc = "validate_repaired"
    /\ LET e == Validation(aKind, aCand)
       IN  /\ aVerdicts' = Append(aVerdicts, e)
           /\ aPc' = "place"
           /\ UNCHANGED aRaised
    /\ UNCHANGED <<aKind, aBlog, aTarget, aCand, aCalls, aPlaced, aResult,
                   blogVars, sanVars, sumVars, tblVars>>

\* validate_summary(summary), in the except block: its exception leaves the function
AddValidateRepaired ==
    /\ aPc = "validate_repaired"
    /\ LET e == Validation(aKind, aCand)
       IN  /\ aVerdicts' = Append(aVerdicts, e)
           /\ IF e = NoError
              THEN aPc' = "place" /\ UNCHANGED aRaised
              ELSE AddRaise(e)
    /\ UNCHANGED <<aKind, aBlog, aTarget, aCand, aCalls, aPlaced, aResult,
                   blogVars, sanVars, sumVars, tblVars>>

\* return inject_summary_at_top(blog_md, summary) /
\* return insert_table_into_blog(blog_md, table_html, after_heading=after_heading)
AddReturn ==
    /\ aPc = "place"
    /\ aPlaced' = aCand
    /\ aResult' = Placement(aKind, aBlog, aCand, aTarget)
    /\ aPc' = "returned"
    /\ UNCHANGED <<aKind, aBlog, aTarget, aCand, aCalls, aVerdicts, aRaised,
                   blogVars, sanVars, sumVars, tblVars>>

NextAdd ==
    \/ AddCallFirst
    \/ AddValidateFirst
    \/ AddCallRepair
    \/ AddValidateRepaired
    \/ AddReturn

SpecAdd == InitAdd /\ [][NextAdd]_vars

(***************************************************************************)
(* Properties of generate_blog_with_two_sources (Spec)                     *)
(***************************************************************************)
Terminal == pc \in {"returned", "raised"}

\* every call_llm call of the run returned a text, and every text fails validate_all
EveryOutputFails ==
    /\ Len(calls) >= 1
    /\ \A i \in 1..Len(calls) :
          calls[i].ok /\ validate_all(calls[i].text, sources) # NoError

\* C1: when every text the generator returns fails validate_all, the run makes
\* exactly 2 call_llm calls and ends by raising the error validate_all gives for
\* the second (repaired) text; no run ever makes a third call.
C1_TwoCallsThenSecondError ==
    /\ Len(calls) <= 2
    /\ (Terminal /\ EveryOutputFails) =>
          /\ pc = "raised"
          /\ Len(calls) = 2
          /\ calls[2].msg.kind = "repair"
          /\ raised = validate_all(calls[2].text, sources)

\* a run that ended on the second failure, whose two texts break different rules
C1_Witness ==
    /\ pc = "raised"
    /\ Len(calls) = 2
    /\ calls[1].ok /\ calls[2].ok
    /\ Len(verdicts) = 2
    /\ verdicts[1].msg # verdicts[2].msg
    /\ raised = verdicts[2]
    /\ raised.type = "ValueError"

HasNoDash(md) == \A i \in 1..Len(md) : md[i] \notin {EMDASH, ENDASH}

AcceptedShape(md) ==
    /\ CountFaqQuestions(md) = 4
    /\ CountCitations(md) >= 6
    /\ HasNoDash(md)

\* C2 (as the code has it): every returned blog, first draft or repaired, has exactly 4
\* FAQ question lines, at least 6 citation markers and no forbidden dash; every
\* URL found in it is one of the two source URLs or the brand domain (http or
\* https), and each source URL occurs in it.  The brand domain need not occur.
C2_AcceptedBlogShape ==
    pc = "returned" =>
        /\ AcceptedShape(result)
        /\ FoundUrls(result) \subseteq {sources[1], sources[2], BRAND_HTTPS, BRAND_HTTP}
        /\ \A i \in 1..2 : Contains(result, sources[i])

\* C2 as stated: the URLs present are exactly the two source URLs plus the brand domain
C2_Original ==
    pc = "returned" =>
        /\ AcceptedShape(result)
        /\ {sources[1], sources[2]} \subseteq FoundUrls(result)
        /\ FoundUrls(result) \cap {BRAND_HTTPS, BRAND_HTTP} # {}
        /\ FoundUrls(result) \subseteq {sources[1], sources[2], BRAND_HTTPS, BRAND_HTTP}

\* a repaired blog is returned that links the brand domain besides both sources
C2_Witness ==
    /\ pc = "returned"
    /\ Len(calls) = 2
    /\ FoundUrls(result) = {sources[1], sources[2], BRAND_HTTPS}

\* the messages of all the rules a text breaks, each validator run on its own
BrokenRuleMessages(md, srcs) ==
    { validate_no_dashes(md).msg, validate_faqs(md).msg,
      validate_has_citations(md).msg, validate_two_sources_only(md, srcs).msg }
    \ {NoError.msg}

\* the violation messages an exception carries: its own
CarriedMessages(e) == {e.msg} \ {NoError.msg}

\* C3: a failing verdict, and the repair request built from it, carries one
\* violation for every rule the text breaks, not only the first that failed.
C3_EveryViolationCarried ==
    /\ \A i \in 1..Len(verdicts) :
          verdicts[i].type = "ValueError" =>
              CarriedMessages(verdicts[i]) = BrokenRuleMessages(calls[i].text, sources)
    /\ \A i \in 1..Len(calls) :
          calls[i].msg.kind = "repair" =>
              CarriedMessages(calls[i].msg.errors) = BrokenRuleMessages(calls[1].text, sources)

\* C9: a call_llm failure, on the first call or on the repair call, ends the run
\* at once with that error: it is the last call, the run has raised LLMError,
\* nothing is returned, no validation ran on it and no repair request follows.
C9_GeneratorFailureIsFatal ==
    \A i \in 1..Len(calls) :
        ~calls[i].ok =>
            /\ i = Len(calls)
            /\ pc = "raised"
            /\ raised = LLMError
            /\ result = NoText
            /\ Len(verdicts) = i - 1

\* the repair call failed
C9_Witness ==
    /\ Len(calls) = 2
    /\ calls[1].ok
    /\ ~calls[2].ok
    /\ calls[2].msg.kind = "repair"
    /\ pc = "raised"
    /\ raised = LLMError

\* C10: what is returned is the text of the most recent call_llm call, and the
\* text on which the last validate_all passed; a text that failed validation,
\* or the first draft after a repair, is never returned.
C10_ReturnsLastValidated ==
    /\ result # NoText => pc = "returned"
    /\ pc = "returned" =>
          /\ calls[Len(calls)].ok
          /\ result = calls[Len(calls)].text
          /\ Len(verdicts) = Len(calls)
          /\ verdicts[Len(verdicts)] = NoError
          /\ validate_all(result, sources) = NoError

\* a repaired text, different from the failed draft, is returned
C10_Witness ==
    /\ pc = "returned"
    /\ Len(calls) = 2
    /\ verdicts[1] # NoError
    /\ calls[1].text # calls[2].text
    /\ result = calls[2].text

(***************************************************************************)
(* Properties of sanitize_output (SpecSanitize)                            *)
(***************************************************************************)
\* C4: sanitize_output is idempotent: sanitizing its own result changes
\* nothing, for every text and every max_len.
C4_Idempotent == sPhase = "twice" => sOut2 = sOut

\* letters, digits, spaces and newlines: text no step of the sanitizer touches
IsPlainChar(c) == (IsWord(c) /\ c # "_") \/ c \in {" ", "\n"}
IsPlain(s) == \A k \in 1..Len(s) : IsPlainChar(s[k])

LowerText(s) == [k \in 1..Len(s) |-> Lower(s[k])]

\* a closing script tag, in any letter case, starts at c
ScriptCloseAt(s, c) ==
    /\ c + 8 <= Len(s)
    /\ LowerText(SubSeq(s, c, c + 8)) = SCRIPT_CLOSE

\* a script element, its name in any letter case, occupies s[i..e]: the opening
\* tag starts at i and ends at the first ">" (position g), the closing tag is
\* the first one after the opening tag and ends at e
ScriptElement(s, i, e) ==
    /\ i + 7 <= Len(s)
    /\ s[i] = "<"
    /\ LowerText(SubSeq(s, i, i + 6)) = SubSeq(SCRIPT_OPEN, 1, 7)
    /\ s[i + 7] \in {">", " ", "\n", "\t"}
    /\ \E g \in (i + 7)..Len(s) :
          /\ s[g] = ">"
          /\ \A k \in (i + 7)..(g - 1) : s[k] # ">"
          /\ e - 8 > g
          /\ ScriptCloseAt(s, e - 8)
          /\ \A c \in (g + 1)..(e - 9) : ~ScriptCloseAt(s, c)

INJECTED_WITH_NEWLINE ==
    <<"#"," ","T","i","t","l","e","\n","\n">> \o FOUR_SENTENCES
    \o <<"\n","\n","B","o","d","y","\n">>
INJECTED_AS_STATED ==
    <<"#"," ","T","i","t","l","e","\n","\n">> \o FOUR_SENTENCES
    \o <<"\n","\n","B","o","d","y">>

\* the position of the first line break of s, Len(s) + 1 when it has none
FirstBreak(s) == RunLenNot(s, 1, {"\n"}) + 1

\* C6 (as the code has it): on "# Title\nBody" with "> S1. S2. S3. S4." the
\* result is "# Title\n\n> S1. S2. S3. S4.\n\nBody\n", ending in one newline;
\* and whenever the content starts with a "# " heading line, the result is
\* that line, a blank line, the stripped summary, a blank line and the rest of
\* the content, the whole stripped of outer whitespace and ended by one newline.
C6_SummaryAfterTitle ==
    mPhase = "injected" =>
        /\ (mBlog = TITLE_BODY /\ mSummary = FOUR_SENTENCES) => mOut = INJECTED_WITH_NEWLINE
        /\ StartsWith(mBlog, H1_PREFIX) =>
              mOut = Strip(Take(mBlog, FirstBreak(mBlog) - 1) \o NL \o NL
                           \o Strip(mSummary) \o NL \o NL
                           \o Drop(mBlog, FirstBreak(mBlog))) \o NL

\* C6 as stated: the result on the example is "# Title\n\n> S1. S2. S3. S4.\n\nBody"
C6_Original ==
    (mPhase = "injected" /\ mBlog = TITLE_BODY /\ mSummary = FOUR_SENTENCES)
        => mOut = INJECTED_AS_STATED

\* the example of the claim was run
C6_Witness ==
    /\ mPhase = "injected"
    /\ mBlog = TITLE_BODY
    /\ mSummary = FOUR_SENTENCES
    /\ mOut = INJECTED_WITH_NEWLINE

\* the text whose sentences are counted: the block without its leading ">"s
AfterMarker(summary) == Drop(summary, RunLen(summary, 1, {">"}))

\* the number of sentences of a text: the places where a segment between
\* terminators has its first character that is not whitespace
NumSentences(text) ==
    Cardinality({ k \in 1..Len(text) :
        /\ ~IsSpace(text[k]) /\ text[k] \notin {".", "!", "?"}
        /\ \A j \in 1..(k - 1) :
              (\A m \in j..(k - 1) : text[m] \notin {".", "!", "?"}) => IsSpace(text[j]) })

\* C8: a summary that starts with the block-quote marker and holds no forbidden
\* dash is accepted exactly when it has 4 or 5 sentences (segments between
\* runs of ".", "!", "?", empty ones discarded); otherwise it is rejected with
\* the sentence-count error naming the number found.
C8_FourOrFiveSentences ==
    ( /\ mPhase # "in"
      /\ StartsWith(Strip(mSummary), <<">">>)
      /\ HasNoDash(mSummary) )
    => LET n == NumSentences(AfterMarker(mSummary))
       IN  IF n \in 4..5 THEN mErr = NoError
           ELSE mErr = ValueError("Summary must be 4-5 sentences. Found", n)

\* a summary of 5 sentences, one empty segment discarded, was accepted
C8_Witness ==
    /\ mPhase = "validated"
    /\ mErr = NoError
    /\ NumSentences(AfterMarker(mSummary)) = 5
    /\ Contains(mSummary, <<".", " ", ".">>)

(***************************************************************************)
(* Properties of insert_table_into_blog (SpecTable)                        *)
(***************************************************************************)
\* the line is an H2 heading for the target: "##", whitespace, the target in
\* any letter case, and nothing else but whitespace around
IsHeadingFor(ln, target) ==
    LET t    == Strip(ln)
        name == Strip(Drop(t, 2))
    IN  /\ Len(t) > 2
        /\ t[1] = "#" /\ t[2] = "#" /\ IsSpace(t[3])
        /\ LowerText(name) = LowerText(target)

HasHeadingFor(blog, target) ==
    target # <<>> /\ \E k \in 1..Len(SplitLines(blog)) : IsHeadingFor(SplitLines(blog)[k], target)

\* R is the blog with the block after line h: a blank line, the marker, the
\* stripped table and (unless the result ends there) a blank line
BlockAfter(R, h, table) ==
    /\ h + 3 <= Len(R)
    /\ R[h + 1] = <<>>
    /\ R[h + 2] = COMMENT_MARKER
    /\ R[h + 3] = Strip(table)
    /\ h + 4 <= Len(R) => R[h + 4] = <<>>

\* the lines of R without the block after line h
WithoutBlock(R, h) == SubSeq(R, 1, h) \o SubSeq(R, h + 5, Len(R))

\* line h is the first heading for the target among the lines R
FirstHeadingFor(R, h, target) ==
    /\ IsHeadingFor(R[h], target)
    /\ \A j \in 1..(h - 1) : ~IsHeadingFor(R[j], target)

\* C7 (as the code has it): with a target heading present as an H2, the result
\* has, right after the first such heading line, a blank line, the comment
\* marker, the stripped table and a blank line; the other lines are the
\* blog's lines in their order, except that whitespace and blank lines at the
\* very start and end of the text are dropped; the result ends in one newline.
C7_TableAfterHeading ==
    (tPhase = "inserted" /\ HasHeadingFor(tBlog, tTarget)) =>
        LET R == SplitLines(tOut)
        IN  /\ tOut = JoinLines(R) \o NL
            /\ \E h \in 1..Len(R) :
                  /\ FirstHeadingFor(R, h, tTarget)
                  /\ BlockAfter(R, h, tTable)
                  /\ Strip(JoinLines(WithoutBlock(R, h))) = Strip(tBlog)

\* C7 as stated: besides the block after the heading, every line of the blog
\* is still there, leading and trailing blank lines included
C7_Original ==
    (tPhase = "inserted" /\ HasHeadingFor(tBlog, tTarget)) =>
        LET R == SplitLines(tOut)
        IN  \E h \in 1..Len(R) :
                /\ FirstHeadingFor(R, h, tTarget)
                /\ BlockAfter(R, h, tTable)
                /\ WithoutBlock(R, h) = SplitLines(tBlog)

\* the table went after the second H2 of a blog, the one asked for, between
\* lines that stayed where they were
C7_Witness ==
    /\ tPhase = "inserted"
    /\ tTarget = <<"p","r","i","c","i","n","g">>
    /\ tBlog = JoinLines(<< <<"#","#"," ","O","t","h","e","r">>,
                            <<"#","#"," ","P","r","i","c","i","n","g">>, <<"x">> >>)
    /\ tOut = JoinLines(<< <<"#","#"," ","O","t","h","e","r">>,
                           <<"#","#"," ","P","r","i","c","i","n","g">>,
                           <<>>, COMMENT_MARKER, SMALL_TABLE, <<>>, <<"x">> >>) \o NL

(***************************************************************************)
(* The repair flow of generate_blog_with_two_sources (Spec)                *)
(***************************************************************************)
\* the run ends here because call_llm raised (see C9), not by a verdict
GeneratorFailed ==
    /\ pc' = "raised"
    /\ raised' = LLMError
    /\ ~calls'[Len(calls')].ok
    /\ UNCHANGED <<verdicts, result>>

\* Draft -> Validated: the draft passed and is returned as it came, after one call
DraftValidated ==
    /\ pc = "validate_draft" /\ pc' = "returned"
    /\ Len(calls) = 1 /\ calls' = calls
    /\ verdicts' = <<NoError>>
    /\ result' = calls[1].text

\* Draft -> Failed: the draft failed, nothing is returned, a repair is due
DraftFailed ==
    /\ pc = "validate_draft" /\ pc' = "repair_call"
    /\ Len(calls) = 1 /\ calls' = calls
    /\ Len(verdicts') = 1 /\ verdicts'[1].type = "ValueError"
    /\ UNCHANGED <<result, raised>>

\* Failed -> RepairRequested -> Repaired: the one repair request, made only
\* after the draft failed, carrying that draft
RepairRequested ==
    /\ pc = "repair_call" /\ pc' = "validate_repaired"
    /\ Len(calls) = 1
    /\ verdicts = <<validate_all(calls[1].text, sources)>>
    /\ verdicts[1] # NoError
    /\ Len(calls') = 2 /\ calls'[1] = calls[1]
    /\ calls'[2].msg.kind = "repair" /\ calls'[2].msg.blog = calls[1].text
    /\ UNCHANGED <<verdicts, result, raised>>

\* Repaired -> Validated or Repaired -> FailedFinal
RepairedJudged ==
    /\ pc = "validate_repaired"
    /\ calls' = calls
    /\ \/ pc' = "returned" /\ verdicts'[2] = NoError /\ result' = calls[2].text
       \/ pc' = "raised" /\ raised' = verdicts'[2] /\ raised'.type = "ValueError"
                        /\ UNCHANGED result

\* nothing leaves Validated or FailedFinal: the only step after the function
\* has returned or raised is a new call of it, which starts from nothing
OnlyANewRun ==
    /\ pc' = "search"
    /\ calls' = <<>> /\ verdicts' = <<>> /\ sources' = <<>>
    /\ result' = NoText /\ raised' = NoError

\* C11: the repair flow takes only the transitions Draft -> Validated, or
\* Draft -> Failed -> RepairRequested -> Repaired -> {Validated, FailedFinal};
\* a repair request follows only a failed first draft, a passing first draft
\* is returned unchanged after one generator call, and no step leaves
\* Validated or FailedFinal (a generator failure ends the run as C9 says).
C11_RepairFlow ==
    [][ /\ pc = "validate_draft" => (DraftValidated \/ DraftFailed)
        /\ pc = "repair_call" => (RepairRequested \/ GeneratorFailed)
        /\ pc = "validate_repaired" => RepairedJudged
        /\ pc \in {"returned", "raised"} => OnlyANewRun
        /\ pc' = "repair_call" => pc = "validate_draft"
        /\ pc' = "validate_repaired" => pc = "repair_call"
        /\ pc' = "returned" => pc \in {"validate_draft", "validate_repaired"}
      ]_vars

\* a first draft passed and was returned after one generator call
C11_Witness ==
    /\ pc = "returned"
    /\ Len(calls) = 1
    /\ verdicts = <<NoError>>
    /\ result = calls[1].text
    /\ calls[1].msg.kind = "write"

(***************************************************************************)
(* The insertion point of insert_table_into_blog (SpecTable)               *)
(***************************************************************************)
\* the block as text: blank line, marker, stripped table, blank line
BlockText(table) == NL \o COMMENT_MARKER \o NL \o Strip(table) \o NL

\* the result has the block after line k of the blog's lines L
PlacedAfter(L, k, table, out) ==
    out = Strip(JoinLines(SubSeq(L, 1, k)) \o NL \o BlockText(table) \o NL
                \o JoinLines(SubSeq(L, k + 1, Len(L)))) \o NL

\* the result has the block before all the content
PlacedOnTop(blog, table, out) ==
    out = COMMENT_MARKER \o NL \o Strip(table) \o NL \o NL \o Strip(blog) \o NL

\* k is the first index of L whose line satisfies the test given as a set of indices
FirstOf(K, k) == k \in K /\ \A j \in K : k <= j

\* the block sits at the first point present among pa (target heading), pb
\* (any H2), the H1 on line 1, the top; pa and pb are sets of line indices
ByPrecedence(L, pa, pb) ==
    IF pa # {} THEN \E k \in pa : FirstOf(pa, k) /\ PlacedAfter(L, k, tTable, tOut)
    ELSE IF pb # {} THEN \E k \in pb : FirstOf(pb, k) /\ PlacedAfter(L, k, tTable, tOut)
    ELSE IF L # <<>> /\ StartsWith(L[1], H1_PREFIX) THEN PlacedAfter(L, 1, tTable, tOut)
    ELSE PlacedOnTop(tBlog, tTable, tOut)

\* lines that begin with "## "
H2Lines(L) == {k \in 1..Len(L) : StartsWith(L[k], H2_PREFIX)}

\* lines that begin with "## " and whose text after it, trailing whitespace
\* and letter case aside, is the target
H2LinesNamed(L, target) ==
    {k \in H2Lines(L) :
        target # <<>> /\ LowerText(RStrip(Drop(L[k], 3))) = LowerText(target)}

\* lines that, whitespace around them aside, are "##", whitespace, the target
\* in any letter case
HeadingLinesFor(L, target) ==
    {k \in 1..Len(L) : target # <<>> /\ IsHeadingFor(L[k], target)}

\* C12 (as the code has it): the insertion point is, in strict precedence,
\* (a) the first line that is a heading for the target once whitespace around
\* the line is dropped ("##", any whitespace, the target in any letter case);
\* else (b) the first line that begins exactly with "## "; else (c) after a
\* "# " heading on the first line; else (d) the top.  A line such as
\* " ## Pricing" counts for (a) but not for (b).
C12_InsertionPrecedence ==
    tPhase = "inserted" =>
        ByPrecedence(SplitLines(tBlog), HeadingLinesFor(SplitLines(tBlog), tTarget),
                     H2Lines(SplitLines(tBlog)))

\* C12 as stated: one notion of second-level heading, a line beginning with
\* "## ", serves both (a) and (b); (a) compares the text after it with the
\* target ignoring letter case and trailing whitespace
C12_Original ==
    tPhase = "inserted" =>
        ByPrecedence(SplitLines(tBlog), H2LinesNamed(SplitLines(tBlog), tTarget),
                     H2Lines(SplitLines(tBlog)))

\* a target was asked for that no heading has: the block went after the
\* first H2, not after the H1 on the first line
C12_Witness ==
    /\ tPhase = "inserted"
    /\ tTarget = <<"p","r","i","c","i","n","g">>
    /\ tBlog = JoinLines(<< <<"#"," ","T">>, <<"x">>, <<"#","#"," ","O","t","h","e","r">>,
                            <<"x">> >>)
    /\ tOut = JoinLines(<< <<"#"," ","T">>, <<"x">>, <<"#","#"," ","O","t","h","e","r">>,
                           <<>>, COMMENT_MARKER, SMALL_TABLE, <<>>, <<"x">> >>) \o NL

(***************************************************************************)
(* The length limit of sanitize_output (SpecSanitize)                      *)
(***************************************************************************)
\* the result when no limit cuts it: no step makes the text longer than the
\* input, so the input's length is a limit that never applies
Unlimited(text) == sanitize_output(text, Len(text))

NoOuterSpace(s) == s = <<>> \/ (~IsSpace(s[1]) /\ ~IsSpace(s[Len(s)]))

\* C13: for every text and every max_len >= 0 the result is at most max_len
\* long and has no whitespace at its start or end; the cut is the last step:
\* the result is the uncut result when that fits, and otherwise its first
\* max_len characters with trailing whitespace dropped.
C13_LengthCeiling ==
    sPhase # "in" =>
        /\ Len(sOut) <= sMax
        /\ NoOuterSpace(sOut)
        /\ Len(Unlimited(sIn)) <= Len(sIn)
        /\ IF Len(Unlimited(sIn)) <= sMax
           THEN sOut = Unlimited(sIn)
           ELSE /\ sOut = Take(Unlimited(sIn), Len(sOut))
                /\ \A k \in (Len(sOut) + 1)..sMax : IsSpace(Unlimited(sIn)[k])

\* the cut fell right after whitespace, which was then dropped: the result
\* is shorter than max_len
C13_Witness ==
    /\ sPhase = "once"
    /\ sMax = SmallMaxLen
    /\ Len(Unlimited(sIn)) > sMax
    /\ IsSpace(Unlimited(sIn)[sMax])
    /\ sOut # <<>>
    /\ Len(sOut) < sMax

(***************************************************************************)
(* Properties of add_top_summary and add_html_comparison_table (SpecAdd)   *)
(***************************************************************************)
AddLastVerdictPassed ==
    /\ aVerdicts # <<>>
    /\ Len(aVerdicts) = Len(aCalls)
    /\ aVerdicts[Len(aVerdicts)] = NoError

\* C14: a call of add_top_summary or add_html_comparison_table makes at most
\* 2 call_llm calls, the second only after the first text failed validation;
\* the placement transform is given only the latest text, and only after that
\* text passed its validation; when the repaired text fails, the call raises
\* that error and no modified blog is produced.
C14_OneRepairThenPlace ==
    /\ Len(aCalls) <= 2
    /\ Len(aCalls) = 2 =>
          aVerdicts # <<>> /\ aVerdicts[1] # NoError /\ aCalls[2].msg.kind = "repair"
    /\ aPc = "place" => AddLastVerdictPassed
    /\ aPlaced # NoText =>
          /\ AddLastVerdictPassed
          /\ aPlaced = Strip(aCalls[Len(aCalls)].text)
          /\ Validation(aKind, aPlaced) = NoError
    /\ aResult # NoText =>
          /\ aPc = "returned"
          /\ aPlaced # NoText
          /\ aResult = Placement(aKind, aBlog, aPlaced, aTarget)
    /\ (Len(aVerdicts) = 2 /\ aVerdicts[2] # NoError) =>
          /\ aPc = "raised"
          /\ aRaised = aVerdicts[2]
          /\ aPlaced = NoText
          /\ aResult = NoText

\* a repaired table, after a first one that failed, was put into the blog
C14_Witness ==
    /\ aKind = "table"
    /\ aPc = "returned"
    /\ Len(aCalls) = 2
    /\ aVerdicts[1].type = "ValueError"
    /\ aCalls[1].text # aCalls[2].text
    /\ aPlaced = FULL_TABLE
    /\ Contains(aResult, COMMENT_MARKER \o NL \o FULL_TABLE)

====
